---- MODULE Spec2Model ----
(***************************************************************************)
(* Cloudflare DDNS updater: the reconciliation engine (ddns/updater.py),   *)
(* the multi-target orchestrator and main (ddns/__main__.py) and the       *)
(* provider operations they call (ddns/cloudflare.py), as one sequential   *)
(* process.  The provider, the IP echo services and the interrupt signal   *)
(* are the environment.                                                    *)
(***************************************************************************)
EXTENDS Integers, Sequences, FiniteSets, TLC

(* ------------------------------ bounds -------------------------------- *)
\* longest target list
MaxTargets == 2
\* longest comma-separated list of an environment variable or an option
MaxParts == 3

None == "None"
Families == {"A", "AAAA"}
\* addresses the echo services can report, per address family
Addr(f) == IF f = "A" THEN {"1.1.1.1", "2.2.2.2"} ELSE {"::1", "::2"}
AllAddr == Addr("A") \cup Addr("AAAA")
Zones == {"a.com", "b.com"}
Names == {"home"}
Keys == Zones \X Names
\* DDNS_INTERVAL / --interval: 0 stands for None and for 0, both falsy
Intervals == {0, 60}
\* intervals _run_multi_loop can be handed, for the loop and per target
LoopIntervals == {0, 30, 60}

VARIABLES
  settings_list,   \* the targets main runs over (after the override step)
  multi,           \* main: args.zones_csv or len(settings_list) > 1
  force_once,      \* args.force_once
  mode,            \* which runner main entered
  pc,              \* position of the process
  i,               \* index of the target being reconciled
  exit_status,     \* main's return value, meaningful when pc = "done"
  exit_code,       \* _run_multi_once: exit_code
  ip_cache,        \* _run_multi_once / _run_multi_loop: ip_cache
  last_ips,        \* _run_multi_loop: last_ips
  last_ip,         \* run_loop: last_ip
  last_ip_arg,     \* run_once: parameter last_ip
  current_ip,      \* run_once: current_ip
  record,          \* run_once: record
  result,          \* run_once: the returned dict
  publicIp,        \* environment: the machine's public address per family
  remote,          \* environment: the provider's record per (zone, name)
  calls,           \* history: provider calls made by the current run_once
  create_arg,      \* history: content of the create call of the current run_once
  update_arg,      \* history: record id and content of the update call
  response,        \* history: the provider's answer to create / update
  lookup,          \* history: outcome of the record lookup of the current run_once
  resolver_calls,  \* history: get_public_ip calls per family in this sweep
  attempted,       \* history: targets run_once was called for in this sweep
  failed,          \* history: targets whose run_once raised in this sweep
  swept,           \* history: a sweep has been completed
  slept,           \* history: sleeps since the last completed sweep
  last_used,       \* history: per key, ip of the latest returned run_once
  confirmed,       \* history: per key, the latest ip seen on or written to the provider
  interrupted_at,  \* history: where the interrupt signal arrived
  credentials,     \* Settings: api_token, api_key, email (one set for all targets)
  interval,        \* _run_multi_loop: parameter interval
  healthy,         \* environment: the network and the address have settled for good
  fn,              \* the function applied on its own, "none" in the runs of main
  fn_in,           \* its arguments
  fn_out,          \* what it returned or raised
  prev_ip,         \* history: last_used of the target's key when run_once was called
  edited           \* history: per key, the record an external edit left behind

vars == <<settings_list, multi, force_once, mode, pc, i, exit_status, exit_code,
          ip_cache, last_ips, last_ip, last_ip_arg, current_ip, record, result,
          publicIp, remote, calls, create_arg, update_arg, response, lookup,
          resolver_calls, attempted, failed, swept, slept, last_used, confirmed,
          interrupted_at, credentials, interval, healthy, fn, fn_in, fn_out,
          prev_ip, edited>>

prog == <<mode, pc, i, exit_status, exit_code>>
caches == <<ip_cache, last_ips, last_ip>>
locals == <<last_ip_arg, prev_ip, current_ip, record, result>>
callhist == <<calls, create_arg, update_arg, response, lookup>>
sweephist == <<resolver_calls, attempted, failed, swept, slept>>
fnvars == <<fn, fn_in, fn_out>>
config == <<settings_list, multi, force_once, interrupted_at, edited, interval,
            credentials, healthy, fnvars>>

(* ------------------------------ values -------------------------------- *)
NoRecord == [id |-> None, content |-> None]
NoResult == [action |-> None, ip |-> None, record_id |-> None, reason |-> None]
NoCalls == [zone |-> 0, find |-> 0, create |-> 0, update |-> 0]
NoUpdate == [id |-> None, content |-> None]
EmptyCache == [f \in Families |-> None]
EmptyLastIps == [k \in Keys |-> None]
NoResolverCalls == [f \in Families |-> 0]
\* no external edit of the record is outstanding
NotEdited == [id |-> "not-edited", content |-> None]
NoEdits == [k \in Keys |-> NotEdited]

\* Python truthiness of an optional string
Truthy(x) == x \notin {None, ""}

Creds(tok, key, em) == [api_token |-> tok, api_key |-> key, email |-> em]
\* what load_all_settings can read from the environment: os.getenv(...) or
\* None leaves every credential absent or non-empty
LoaderCredentials ==
  { Creds(tok, key, em) :
      <<tok, key, em>> \in {None, "tok"} \X {None, "key"} \X {None, "me@x.org"} }
\* the credentials of the runs of Spec: a token
TokenCredentials == { Creds("tok", None, None) }

ValueError == [error |-> "ValueError", headers |-> {}]
Headers(h) == [error |-> None, headers |-> h]

\* AuthHeaders accepting a key without an email
AuthHeaders_KeyAlone(c) ==
  IF Truthy(c.api_token)
  THEN Headers({<<"Authorization", "Bearer " \o c.api_token>>})
  ELSE IF Truthy(c.api_key)
       THEN Headers({<<"X-Auth-Email", c.email>>, <<"X-Auth-Key", c.api_key>>})
       ELSE ValueError

\* config.py lines 33-39: Settings.auth_headers
AuthHeaders(c) ==
  IF Truthy(c.api_token)
  THEN Headers({<<"Authorization", "Bearer " \o c.api_token>>})
  ELSE IF Truthy(c.api_key) /\ Truthy(c.email)
       THEN Headers({<<"X-Auth-Email", c.email>>, <<"X-Auth-Key", c.api_key>>})
       ELSE ValueError

\* the provider's opaque id of the record of a (zone, name)
RecordId(k) == "rec-" \o k[1] \o "-" \o k[2]

Settings(k, rt, iv, dry) ==
  [zone_name |-> k[1], record_name |-> k[2], record_type |-> rt,
   interval |-> iv, dry_run |-> dry]

\* load_all_settings and the override steps give every target the one
\* record type, interval and dry-run flag of the run
SettingsLists ==
  UNION { { [j \in 1..n |-> Settings(ks[j], rt, iv, dry)] : ks \in [1..n -> Keys] }
          : <<n, rt, iv, dry>> \in (1..MaxTargets) \X Families \X Intervals \X BOOLEAN }

\* target lists as a caller of _run_multi_loop can build them: every target
\* with an interval of its own
LoopCallLists ==
  UNION { { [j \in 1..n |-> Settings(ks[j], "A", ivs[j], FALSE)] :
              <<ks, ivs>> \in [1..n -> Keys] \X [1..n -> LoopIntervals] }
          : n \in 1..MaxTargets }

KeyOf(s) == <<s.zone_name, s.record_name>>
N == Len(settings_list)
cur == settings_list[i]

(* ------------------------- run_once: decisions ------------------------ *)
LoopModes == {"single_loop", "multi_loop"}
MultiModes == {"multi_once", "multi_loop"}
CallPcs == {"zone", "find", "create", "update"}

\* LastIpFor of a loop that never passes its cache to run_once
LastIpFor_Never(m, key) == None

\* the last_ip argument each runner passes to run_once
LastIpFor(m, key) ==
  CASE m = "multi_loop" -> last_ips[key]
    [] m = "single_loop" -> last_ip
    [] OTHER -> None

\* the last-seen-IP cache entry of key k kept by the running loop
CacheEntry(k) ==
  IF mode = "multi_loop" THEN last_ips[k]
  ELSE IF k = KeyOf(settings_list[1]) THEN last_ip ELSE None

\* FastPath taken whenever a last_ip is given
FastPath_AnyCached(lip, ip) == lip # None

\* FastPath with the comparison inverted
FastPath_Inverted(lip, ip) == lip # None /\ lip # ip

\* updater.py line 24: if last_ip and last_ip == current_ip
FastPath(lip, ip) == lip # None /\ lip = ip

Noop(ip, rid, why) == [action |-> "noop", ip |-> ip, record_id |-> rid, reason |-> why]
Act(a, ip, rid) == [action |-> a, ip |-> ip, record_id |-> rid, reason |-> None]

\* Decide with the dry-run test inverted
Decide_DryInverted(rec, ip, dry) ==
  IF rec # NoRecord
  THEN IF rec.content = ip
       THEN [next |-> "returned", result |-> Noop(ip, rec.id, "unchanged-remote")]
       ELSE IF ~dry
            THEN [next |-> "returned", result |-> Act("update-skip-dry-run", ip, rec.id)]
            ELSE [next |-> "update", result |-> NoResult]
  ELSE IF ~dry
       THEN [next |-> "returned", result |-> Act("create-skip-dry-run", ip, None)]
       ELSE [next |-> "create", result |-> NoResult]

\* Decide without the comparison of the record's content with the address
Decide_NoRemoteCheck(rec, ip, dry) ==
  IF rec # NoRecord
  THEN IF dry
       THEN [next |-> "returned", result |-> Act("update-skip-dry-run", ip, rec.id)]
       ELSE [next |-> "update", result |-> NoResult]
  ELSE IF dry
       THEN [next |-> "returned", result |-> Act("create-skip-dry-run", ip, None)]
       ELSE [next |-> "create", result |-> NoResult]

\* Decide with dry_run honoured for a missing record only
Decide_DryCreateOnly(rec, ip, dry) ==
  IF rec # NoRecord
  THEN IF rec.content = ip
       THEN [next |-> "returned", result |-> Noop(ip, rec.id, "unchanged-remote")]
       ELSE [next |-> "update", result |-> NoResult]
  ELSE IF dry
       THEN [next |-> "returned", result |-> Act("create-skip-dry-run", ip, None)]
       ELSE [next |-> "create", result |-> NoResult]

\* updater.py lines 30-48: what run_once does with the looked-up record;
\* next is "returned" with the result, or the mutating call to make
Decide(rec, ip, dry) ==
  IF rec # NoRecord
  THEN IF rec.content = ip
       THEN [next |-> "returned", result |-> Noop(ip, rec.id, "unchanged-remote")]
       ELSE IF dry
            THEN [next |-> "returned", result |-> Act("update-skip-dry-run", ip, rec.id)]
            ELSE [next |-> "update", result |-> NoResult]
  ELSE IF dry
       THEN [next |-> "returned", result |-> Act("create-skip-dry-run", ip, None)]
       ELSE [next |-> "create", result |-> NoResult]

\* whether a network call can succeed or fail: once the environment has
\* settled every call succeeds
Outcomes == IF healthy THEN {TRUE} ELSE BOOLEAN

\* updater.py lines 31-32, 45 and 58: the results of a call that saw its
\* address in the provider's record or wrote it there
Confirms(res) ==
  res.action \in {"created", "updated"} \/ res.reason = "unchanged-remote"

\* run_once returns res, having used the address ip / raises
Return(res, ip) ==
  /\ pc' = "returned"
  /\ result' = res
  /\ last_used' = [last_used EXCEPT ![KeyOf(cur)] = ip]
  /\ confirmed' = IF Confirms(res) THEN [confirmed EXCEPT ![KeyOf(cur)] = ip]
                  ELSE confirmed

\* Raise with the failure swallowed: run_once goes on to the create call
Raise_GoesOn ==
  /\ pc' = "create"
  /\ result' = NoResult
  /\ UNCHANGED <<last_used, confirmed>>

Raise ==
  /\ pc' = "raised"
  /\ result' = NoResult
  /\ UNCHANGED <<last_used, confirmed>>

Continue(next) ==
  /\ pc' = next
  /\ result' = NoResult
  /\ UNCHANGED <<last_used, confirmed>>

\* the ip_getter of the runner: the multi runners answer from ip_cache
CacheHit(m, cache, rt) == m \in MultiModes /\ cache[rt] # None

(* ------------------------------- Init --------------------------------- *)
\* the state main starts from, for a target list of lists
Start(lists, creds) ==
  /\ settings_list \in lists
  /\ credentials \in creds
  /\ multi \in BOOLEAN
  /\ Len(settings_list) > 1 => multi
  /\ force_once \in BOOLEAN
  /\ mode = "none"
  /\ pc = "main"
  /\ i = 1
  /\ exit_status = 0
  /\ exit_code = 0
  /\ ip_cache = EmptyCache
  /\ last_ips = EmptyLastIps
  /\ last_ip = None
  /\ last_ip_arg = None
  /\ current_ip = None
  /\ record = NoRecord
  /\ result = NoResult
  /\ publicIp \in { p \in [Families -> AllAddr] :
                      \A f \in Families :
                         /\ p[f] \in Addr(f)
                         /\ f # settings_list[1].record_type
                              => p[f] = CHOOSE a \in Addr(f) : TRUE }
  /\ remote \in { r \in [Keys -> {NoRecord} \cup
                                  { [id |-> RecordId(k), content |-> a] :
                                      <<k, a>> \in Keys \X AllAddr }] :
                    \A k \in Keys :
                       /\ r[k] # NoRecord =>
                            /\ r[k].id = RecordId(k)
                            /\ r[k].content \in Addr(settings_list[1].record_type)
                       /\ k \notin { KeyOf(settings_list[j]) : j \in 1..Len(settings_list) }
                            => r[k] = NoRecord }
  /\ calls = NoCalls
  /\ create_arg = None
  /\ update_arg = NoUpdate
  /\ response = NoRecord
  /\ lookup = "none"
  /\ resolver_calls = NoResolverCalls
  /\ attempted = << >>
  /\ failed = {}
  /\ swept = FALSE
  /\ slept = 0
  /\ last_used = EmptyLastIps
  /\ confirmed = EmptyLastIps
  /\ interrupted_at = None
  /\ interval = 0
  /\ healthy = FALSE
  /\ fn = "none"
  /\ fn_in = None
  /\ fn_out = None
  /\ prev_ip = None
  /\ edited = NoEdits

Init == Start(SettingsLists, TokenCredentials)

\* main started with whatever credentials the environment holds
InitAnyCredentials == Start(SettingsLists, LoaderCredentials)

\* _run_multi_loop about to be called on a list of its caller's making
InitLoopCall == Start(LoopCallLists, TokenCredentials)

(* ------------------------------- main --------------------------------- *)
\* Looping that looks at the interval alone
Looping_IgnoresOnce(s, once) == s.interval # 0

\* __main__.py lines 190-219: which runner main enters
Looping(s, once) == s.interval # 0 /\ ~once

\* StartSweep with one ip_cache kept for the whole run
StartSweep_KeepCache ==
  /\ i' = 1
  /\ pc' = "call"
  /\ UNCHANGED ip_cache

StartSweep ==
  /\ i' = 1
  /\ pc' = "call"
  /\ ip_cache' = EmptyCache

\* main, single path, lines 202-217: run_once(settings)
MainRunOnce ==
  /\ pc = "main" /\ ~multi /\ ~Looping(settings_list[1], force_once)
  /\ mode' = "single_once"
  /\ StartSweep
  /\ UNCHANGED <<exit_status, exit_code, last_ips, last_ip, locals, publicIp, remote,
                 callhist, sweephist, last_used, confirmed, config>>

\* main, single path, line 215, and run_loop lines 62-65
MainRunLoop ==
  /\ pc = "main" /\ ~multi /\ Looping(settings_list[1], force_once)
  /\ IF settings_list[1].interval = 0
     THEN mode' = "single_once"
     ELSE mode' = "single_loop"
  /\ last_ip' = None
  /\ StartSweep
  /\ UNCHANGED <<exit_status, exit_code, last_ips, locals, publicIp, remote,
                 callhist, sweephist, last_used, confirmed, config>>

\* main, multi path, line 196, and _run_multi_once lines 110-120
MainRunMultiOnce ==
  /\ pc = "main" /\ multi /\ ~Looping(settings_list[1], force_once)
  /\ mode' = "multi_once"
  /\ exit_code' = 0
  /\ StartSweep
  /\ UNCHANGED <<exit_status, last_ips, last_ip, locals, publicIp, remote,
                 callhist, sweephist, last_used, confirmed, config>>

\* IntervalMismatch looking at the first target only
IntervalMismatch_FirstOnly(list, iv) ==
  list[1].interval # 0 /\ list[1].interval # iv

\* _run_multi_loop lines 136-137: some target has an interval of its own
\* that is not the loop's
IntervalMismatch(list, iv) ==
  \E j \in 1..Len(list) : list[j].interval # 0 /\ list[j].interval # iv

\* _run_multi_loop lines 132-145, called with interval iv
RunMultiLoop(iv) ==
  /\ interval' = iv
  /\ IF force_once \/ iv = 0
     THEN /\ mode' = "multi_once"
          /\ exit_code' = 0
          /\ StartSweep
          /\ UNCHANGED <<exit_status, last_ips>>
     ELSE IF IntervalMismatch(settings_list, iv)
          THEN /\ pc' = "done"
               /\ exit_status' = 2
               /\ UNCHANGED <<mode, i, exit_code, ip_cache, last_ips>>
          ELSE /\ mode' = "multi_loop"
               /\ last_ips' = EmptyLastIps
               /\ StartSweep
               /\ UNCHANGED <<exit_status, exit_code>>
  /\ UNCHANGED <<last_ip, locals, publicIp, remote, callhist, sweephist, last_used, confirmed,
                 settings_list, multi, force_once, interrupted_at, edited,
                 credentials, healthy, fnvars>>

\* main, multi path, lines 191-194: _run_multi_loop(settings_list, interval, ...)
\* with the interval of the first target
MainRunMultiLoop ==
  /\ pc = "main" /\ multi /\ Looping(settings_list[1], force_once)
  /\ RunMultiLoop(settings_list[1].interval)

\* _run_multi_loop called by any caller, with any interval
CallRunMultiLoop ==
  /\ pc = "main"
  /\ \E iv \in LoopIntervals : RunMultiLoop(iv)

(* ------------------------------ run_once ------------------------------ *)
ResetCall ==
  /\ last_ip_arg' = None
  /\ prev_ip' = None
  /\ current_ip' = None
  /\ record' = NoRecord
  /\ result' = NoResult
  /\ calls' = NoCalls
  /\ create_arg' = None
  /\ update_arg' = NoUpdate
  /\ response' = NoRecord
  /\ lookup' = "none"

\* updater.py lines 21-25 with the runner's ip_getter (__main__.py lines
\* 115-118, 147-150; ip.py get_public_ip for the single runners): the runner
\* calls run_once for target i, run_once obtains the address and takes the
\* cached-IP fast path or goes on to the zone lookup
RunOnceResolve ==
  /\ pc = "call"
  /\ LET rt == cur.record_type
         arg == LastIpFor(mode, KeyOf(cur))
         hit == CacheHit(mode, ip_cache, rt)
     IN
     /\ last_ip_arg' = arg
     /\ prev_ip' = last_used[KeyOf(cur)]
     /\ attempted' = Append(attempted, i)
     /\ resolver_calls' = IF hit THEN resolver_calls
                          ELSE [resolver_calls EXCEPT ![rt] = @ + 1]
     /\ \E ok \in Outcomes :
          IF hit \/ ok
          THEN LET ip == IF hit THEN ip_cache[rt] ELSE publicIp[rt] IN
               /\ current_ip' = ip
               /\ edited' = IF ip = CacheEntry(KeyOf(cur)) THEN edited
                             ELSE [edited EXCEPT ![KeyOf(cur)] = NotEdited]
               /\ ip_cache' = IF mode \in MultiModes
                              THEN [ip_cache EXCEPT ![rt] = ip]
                              ELSE ip_cache
               /\ IF FastPath(arg, ip)
                  THEN Return(Noop(ip, None, "unchanged-cached"), ip)
                  ELSE Continue("zone")
          ELSE /\ current_ip' = None
               /\ UNCHANGED <<ip_cache, edited>>
               /\ Raise
  /\ UNCHANGED <<mode, i, exit_status, exit_code, last_ips, last_ip, record,
                 publicIp, remote, callhist, failed, swept, slept,
                 settings_list, multi, force_once, interrupted_at, interval,
                 credentials, healthy, fnvars>>

\* updater.py line 27, cloudflare.py lines 22-29: settings.auth_headers is
\* evaluated first and raises before the call when no credentials are usable
GetZoneId ==
  /\ pc = "zone"
  /\ IF AuthHeaders(credentials).error # None
     THEN /\ UNCHANGED calls
          /\ Raise
     ELSE /\ calls' = [calls EXCEPT !.zone = @ + 1]
          /\ \E ok \in Outcomes : IF ok THEN Continue("find") ELSE Raise
  /\ UNCHANGED <<mode, i, exit_status, exit_code, caches, last_ip_arg, prev_ip, current_ip,
                 record, publicIp, remote, create_arg, update_arg, response, lookup,
                 sweephist, config>>

\* updater.py lines 28-48, cloudflare.py lines 32-39
FindDnsRecord ==
  /\ pc = "find"
  /\ calls' = [calls EXCEPT !.find = @ + 1]
  /\ \E ok \in Outcomes :
       IF ok
       THEN LET found == remote[KeyOf(cur)]
                d == Decide(found, current_ip, cur.dry_run)
            IN /\ record' = found
               /\ lookup' = IF found = NoRecord THEN "absent" ELSE "found"
               /\ IF d.next = "returned" THEN Return(d.result, current_ip) ELSE Continue(d.next)
       ELSE /\ record' = NoRecord
            /\ UNCHANGED lookup
            /\ Raise
  /\ UNCHANGED <<mode, i, exit_status, exit_code, caches, last_ip_arg, prev_ip, current_ip,
                 publicIp, remote, create_arg, update_arg, response,
                 sweephist, config>>

\* a provider call that fails (transport error, success false) raises and
\* leaves the provider's records as they were

\* the record the provider holds under id rid after a successful update
Updated(r, rid, content) ==
  [k \in Keys |-> IF r[k] # NoRecord /\ r[k].id = rid
                  THEN [id |-> rid, content |-> content]
                  ELSE r[k]]

\* UpdateRequest carrying the record's old content
UpdateRequest_Stale(rec, ip) == [id |-> rec.id, content |-> rec.content]

\* updater.py lines 35-44: the update request, addressed to the found
\* record and carrying the resolved address
UpdateRequest(rec, ip) == [id |-> rec.id, content |-> ip]

\* updater.py lines 35-45, cloudflare.py lines 55-65
UpdateDnsRecord ==
  /\ pc = "update"
  /\ calls' = [calls EXCEPT !.update = @ + 1]
  /\ update_arg' = UpdateRequest(record, current_ip)
  /\ \E ok \in Outcomes :
       IF ok
       THEN /\ remote' = Updated(remote, update_arg'.id, update_arg'.content)
            /\ response' = update_arg'
            /\ Return(Act("updated", current_ip, response'.id), current_ip)
       ELSE /\ UNCHANGED <<remote, response>>
            /\ Raise
  /\ UNCHANGED <<mode, i, exit_status, exit_code, caches, last_ip_arg, prev_ip, current_ip,
                 record, publicIp, create_arg, lookup, sweephist, config>>

\* updater.py lines 49-57: the content of the create request
CreateRequest(ip) == ip

\* updater.py lines 49-58, cloudflare.py lines 42-52
CreateDnsRecord ==
  /\ pc = "create"
  /\ calls' = [calls EXCEPT !.create = @ + 1]
  /\ create_arg' = CreateRequest(current_ip)
  /\ \E ok \in Outcomes :
       IF ok
       THEN /\ response' = [id |-> RecordId(KeyOf(cur)), content |-> create_arg']
            /\ remote' = [remote EXCEPT ![KeyOf(cur)] = response']
            /\ Return(Act("created", current_ip, response'.id), current_ip)
       ELSE /\ UNCHANGED <<remote, response>>
            /\ Raise
  /\ UNCHANGED <<mode, i, exit_status, exit_code, caches, last_ip_arg, prev_ip, current_ip,
                 record, publicIp, update_arg, lookup, sweephist, config>>

(* ------------------------------ runners ------------------------------- *)
Ended == pc \in {"returned", "raised"}

\* SweepGoesOn with the per-target handler missing: a raise ends the sweep
SweepGoesOn_StopOnRaise(idx, n, raised) == idx < n /\ ~raised

\* __main__.py lines 121-129 and 152-160: the for loop over settings_list
\* goes on to the next target whatever the outcome of this one
SweepGoesOn(idx, n, raised) == idx < n

\* the runner goes on to the next target of the sweep
NextTarget ==
  /\ i' = i + 1
  /\ pc' = "call"
  /\ UNCHANGED <<swept, slept>>

EndSweep(next) ==
  /\ i' = i
  /\ pc' = next
  /\ swept' = TRUE
  /\ slept' = 0

\* main lines 213-226: the single one-shot run ends
MainEndOnce ==
  /\ mode = "single_once" /\ Ended
  /\ exit_status' = IF pc = "raised" THEN 1 ELSE 0
  /\ failed' = IF pc = "raised" THEN failed \cup {i} ELSE failed
  /\ EndSweep("done")
  /\ ResetCall
  /\ UNCHANGED <<mode, exit_code, caches, publicIp, remote, resolver_calls,
                 attempted, last_used, confirmed, config>>

\* RunLoopIter without the try/except: the exception leaves run_loop and
\* main returns 1
RunLoopIter_NoHandler ==
  /\ mode = "single_loop" /\ Ended
  /\ last_ip' = IF pc = "returned" THEN result.ip ELSE last_ip
  /\ failed' = IF pc = "raised" THEN failed \cup {i} ELSE failed
  /\ IF pc = "raised"
     THEN EndSweep("done") /\ exit_status' = 1
     ELSE EndSweep("sleep") /\ UNCHANGED exit_status
  /\ ResetCall
  /\ UNCHANGED <<mode, exit_code, ip_cache, last_ips, publicIp, remote,
                 resolver_calls, attempted, last_used, confirmed, config>>

\* updater.py lines 67-71: one iteration of run_loop, up to the sleep
RunLoopIter ==
  /\ mode = "single_loop" /\ Ended
  /\ last_ip' = IF pc = "returned" THEN result.ip ELSE last_ip
  /\ failed' = IF pc = "raised" THEN failed \cup {i} ELSE failed
  /\ EndSweep("sleep")
  /\ ResetCall
  /\ UNCHANGED <<mode, exit_status, exit_code, ip_cache, last_ips, publicIp, remote,
                 resolver_calls, attempted, last_used, confirmed, config>>

\* ExitCodeAfter reflecting the latest target only
ExitCodeAfter_LastOnly(code, raised) == IF raised THEN 1 ELSE 0

\* _run_multi_once lines 121-129: what the loop does with the outcome of
\* one target; the exit code it carries
ExitCodeAfter(code, raised) == IF raised THEN 1 ELSE code

MultiOnceIter ==
  /\ mode = "multi_once" /\ Ended
  /\ exit_code' = ExitCodeAfter(exit_code, pc = "raised")
  /\ failed' = IF pc = "raised" THEN failed \cup {i} ELSE failed
  /\ IF SweepGoesOn(i, N, pc = "raised")
     THEN NextTarget /\ UNCHANGED exit_status
     ELSE EndSweep("done") /\ exit_status' = exit_code'
  /\ ResetCall
  /\ UNCHANGED <<mode, caches, publicIp, remote, resolver_calls, attempted,
                 last_used, confirmed, config>>

\* LastIpsAfter storing the outcome of a raising call as well
LastIpsAfter_Always(lips, key, returned, res) == [lips EXCEPT ![key] = res.ip]

\* _run_multi_loop lines 154-160: last_ips after one target's outcome
LastIpsAfter(lips, key, returned, res) ==
  IF returned THEN [lips EXCEPT ![key] = res.ip] ELSE lips

MultiLoopIter ==
  /\ mode = "multi_loop" /\ Ended
  /\ last_ips' = LastIpsAfter(last_ips, KeyOf(cur), pc = "returned", result)
  /\ failed' = IF pc = "raised" THEN failed \cup {i} ELSE failed
  /\ IF SweepGoesOn(i, N, pc = "raised") THEN NextTarget ELSE EndSweep("sleep")
  /\ ResetCall
  /\ UNCHANGED <<mode, exit_status, exit_code, ip_cache, last_ip, publicIp, remote,
                 resolver_calls, attempted, last_used, confirmed, config>>

\* updater.py line 72, __main__.py lines 161 and 143-145: the sleep ends and
\* the next cycle starts with an empty ip_cache
Sleep ==
  /\ pc = "sleep"
  /\ slept' = slept + 1
  /\ StartSweep
  /\ resolver_calls' = NoResolverCalls
  /\ attempted' = << >>
  /\ failed' = {}
  /\ UNCHANGED <<mode, exit_status, exit_code, last_ips, last_ip, locals, publicIp,
                 remote, callhist, swept, last_used, confirmed, config>>

\* Interrupt caught by the handler around run_once like any other error
Interrupt_Swallowed ==
  /\ pc \in CallPcs \cup {"call", "returned", "raised", "sleep"}
  /\ interrupted_at' = pc
  /\ ResetCall
  /\ IF mode \in LoopModes
     THEN pc' = "sleep" /\ UNCHANGED exit_status
     ELSE pc' = "done" /\ exit_status' = 1
  /\ UNCHANGED <<mode, i, exit_code, caches, publicIp, remote, sweephist, last_used,
                 confirmed, settings_list, multi, force_once, edited, interval,
                 credentials, healthy, fnvars>>

\* main lines 197-200 and 220-223: KeyboardInterrupt is no Exception, so no
\* handler of run_loop or of the multi runners catches it; main returns 130
\* and the memory of the process is gone
Interrupt ==
  /\ pc \in CallPcs \cup {"call", "returned", "raised", "sleep"}
  /\ pc' = "done"
  /\ exit_status' = 130
  /\ interrupted_at' = pc
  /\ i' = 1
  /\ exit_code' = 0
  /\ ip_cache' = EmptyCache
  /\ last_ips' = EmptyLastIps
  /\ last_ip' = None
  /\ ResetCall
  /\ resolver_calls' = NoResolverCalls
  /\ attempted' = << >>
  /\ failed' = {}
  /\ swept' = FALSE
  /\ slept' = 0
  /\ last_used' = EmptyLastIps
  /\ confirmed' = EmptyLastIps
  /\ edited' = NoEdits
  /\ UNCHANGED <<mode, publicIp, remote, settings_list, multi, force_once, interval,
                 credentials, healthy, fnvars>>

(* ---------------------------- environment ----------------------------- *)
\* the machine's public address changes while the program sleeps; the
\* address of a family no target uses is never read and is held fixed
ChangeIp ==
  /\ pc = "sleep"
  /\ ~healthy
  /\ \E a \in Addr(settings_list[1].record_type) :
       /\ a # publicIp[settings_list[1].record_type]
       /\ publicIp' = [publicIp EXCEPT ![settings_list[1].record_type] = a]
  /\ UNCHANGED <<prog, caches, locals, remote, callhist, sweephist, last_used, confirmed, config>>

\* between two cycles the environment settles: from now on the address
\* stays as it is and every resolver and provider call succeeds
Settle ==
  /\ pc = "sleep"
  /\ ~healthy
  /\ healthy' = TRUE
  /\ UNCHANGED <<prog, caches, locals, publicIp, remote, callhist, sweephist,
                 last_used, confirmed, settings_list, multi, force_once, interrupted_at,
                 edited,
                 interval, credentials, fnvars>>

\* somebody else edits or deletes the record at the provider while the
\* loop sleeps between two cycles
ExternalEdit ==
  /\ pc = "sleep"
  /\ \E j \in 1..N :
       \E new \in {NoRecord} \cup { [id |-> RecordId(KeyOf(settings_list[j])), content |-> a] :
                                     a \in Addr(settings_list[j].record_type) } :
         /\ new # remote[KeyOf(settings_list[j])]
         /\ remote' = [remote EXCEPT ![KeyOf(settings_list[j])] = new]
         /\ edited' = [edited EXCEPT ![KeyOf(settings_list[j])] = new]
  /\ UNCHANGED <<prog, caches, locals, publicIp, callhist, sweephist, last_used, confirmed,
                 settings_list, multi, force_once, interrupted_at, interval,
                 credentials, healthy, fnvars>>

Next ==
  \/ MainRunOnce
  \/ MainRunLoop
  \/ MainRunMultiOnce
  \/ MainRunMultiLoop
  \/ RunOnceResolve
  \/ GetZoneId
  \/ FindDnsRecord
  \/ UpdateDnsRecord
  \/ CreateDnsRecord
  \/ MainEndOnce
  \/ RunLoopIter
  \/ MultiOnceIter
  \/ MultiLoopIter
  \/ Sleep
  \/ Interrupt
  \/ ChangeIp

Spec == Init /\ [][Next]_vars

\* the program next to a second writer of the provider's records
NextEdited == Next \/ ExternalEdit

EditSpec == Init /\ [][NextEdited]_vars

CredSpec == InitAnyCredentials /\ [][Next]_vars

\* _run_multi_loop called directly and the runs that follow
NextLoopCall ==
  \/ CallRunMultiLoop
  \/ RunOnceResolve
  \/ GetZoneId
  \/ FindDnsRecord
  \/ UpdateDnsRecord
  \/ CreateDnsRecord
  \/ MultiOnceIter
  \/ MultiLoopIter
  \/ Sleep
  \/ Interrupt
  \/ ChangeIp

LoopCallSpec == InitLoopCall /\ [][NextLoopCall]_vars

\* the steps of the program itself: every network call is bounded by its
\* timeout and time.sleep returns, so a pending step is eventually taken
Program ==
  \/ MainRunOnce \/ MainRunLoop \/ MainRunMultiOnce \/ MainRunMultiLoop
  \/ RunOnceResolve \/ GetZoneId \/ FindDnsRecord \/ UpdateDnsRecord
  \/ CreateDnsRecord \/ MainEndOnce \/ RunLoopIter \/ MultiOnceIter
  \/ MultiLoopIter \/ Sleep

FairSpec == Spec /\ WF_vars(Program)

\* continuous runs that write (interval set, no --once, dry_run false)
ContinuousLists == { l \in SettingsLists : l[1].interval # 0 /\ ~l[1].dry_run }

InitContinuous ==
  /\ Start(ContinuousLists, TokenCredentials)
  /\ force_once = FALSE

\* a continuous run in an environment that may settle
NextSettle ==
  \/ MainRunLoop
  \/ MainRunMultiLoop
  \/ RunOnceResolve
  \/ GetZoneId
  \/ FindDnsRecord
  \/ UpdateDnsRecord
  \/ CreateDnsRecord
  \/ RunLoopIter
  \/ MultiLoopIter
  \/ Sleep
  \/ Interrupt
  \/ ChangeIp
  \/ Settle

SettleSpec == InitContinuous /\ [][NextSettle]_vars /\ WF_vars(Program)

(* ============================== claims ================================ *)
InCall == pc \in CallPcs \cup {"returned", "raised"}

\* C1: with dry_run false, once the record lookup of a run_once call has
\* found no record, the call makes no update call and exactly one create
\* call, whose content is the resolved address; when it returns, the
\* action is "created", ip is the resolved address and record_id is the id
\* of the create response
C1_CreatedWhenAbsent ==
  (InCall /\ lookup = "absent" /\ ~cur.dry_run) =>
    /\ pc \in {"create", "returned", "raised"}
    /\ calls.update = 0
    /\ pc = "create" => calls.create = 0
    /\ pc \in {"returned", "raised"} =>
         /\ calls.create = 1
         /\ create_arg = current_ip
         /\ current_ip \in Addr(cur.record_type)
    /\ pc = "returned" =>
         /\ result.action = "created"
         /\ result.ip = current_ip
         /\ response # NoRecord
         /\ result.record_id = response.id
         /\ remote[KeyOf(cur)] = [id |-> result.record_id, content |-> current_ip]

C1_Witness ==
  /\ pc = "returned" /\ lookup = "absent" /\ ~cur.dry_run
  /\ result.action = "created" /\ calls.create = 1

\* C2: with dry_run false, once the record lookup has found a record whose
\* content differs from the resolved address, the call makes no create call
\* and exactly one update call, addressed to the found record's id and
\* carrying the resolved address; when it returns, the action is "updated",
\* ip is the resolved address and record_id is the id of the update response
C2_UpdatedWhenDifferent ==
  (InCall /\ lookup = "found" /\ record.content # current_ip /\ ~cur.dry_run) =>
    /\ pc \in {"update", "returned", "raised"}
    /\ calls.create = 0
    /\ pc = "update" => calls.update = 0
    /\ pc \in {"returned", "raised"} =>
         /\ calls.update = 1
         /\ update_arg = [id |-> record.id, content |-> current_ip]
    /\ pc = "returned" =>
         /\ result.action = "updated"
         /\ result.ip = current_ip
         /\ response # NoRecord
         /\ result.record_id = response.id
         /\ remote[KeyOf(cur)] = [id |-> record.id, content |-> current_ip]

C2_Witness ==
  /\ pc = "returned" /\ lookup = "found" /\ ~cur.dry_run
  /\ result.action = "updated" /\ calls.update = 1
  /\ record.content # current_ip

\* C3: whatever dry_run is, once the record lookup has found a record whose
\* content equals the resolved address, the call has returned "noop" with
\* reason "unchanged-remote" and has made no create and no update call
C3_NoopWhenRemoteEqual ==
  (InCall /\ lookup = "found" /\ record.content = current_ip) =>
    /\ pc = "returned"
    /\ result.action = "noop"
    /\ result.reason = "unchanged-remote"
    /\ result.ip = current_ip
    /\ calls.create = 0 /\ calls.update = 0

C3_Witness ==
  /\ pc = "returned" /\ lookup = "found" /\ record.content = current_ip
  /\ result.reason = "unchanged-remote" /\ ~cur.dry_run

\* C4: once a run_once call given a last_ip has resolved that same address,
\* it has returned "noop" with reason "unchanged-cached" and has made no
\* provider call at all
C4_NoopWhenCached ==
  (InCall /\ last_ip_arg # None /\ last_ip_arg = current_ip) =>
    /\ pc = "returned"
    /\ result.action = "noop"
    /\ result.reason = "unchanged-cached"
    /\ result.ip = current_ip
    /\ calls = NoCalls
    /\ lookup = "none"

C4_Witness ==
  /\ pc = "returned" /\ last_ip_arg # None /\ last_ip_arg = current_ip
  /\ result.reason = "unchanged-cached"
  /\ remote[KeyOf(cur)].content # current_ip

\* C5 as stated: with dry_run true no create or update call is ever made,
\* and a returned action is "create-skip-dry-run" when the lookup found no
\* record and "update-skip-dry-run" when it found one
C5_AsStated ==
  (InCall /\ cur.dry_run) =>
    /\ calls.create = 0 /\ calls.update = 0
    /\ (pc = "returned" /\ lookup = "absent") => result.action = "create-skip-dry-run"
    /\ (pc = "returned" /\ lookup = "found") => result.action = "update-skip-dry-run"

\* C5 amended: with dry_run true no create or update call is ever made, in
\* a one-shot run and in every cycle of a loop; a returned action is
\* "create-skip-dry-run" when the lookup found no record and
\* "update-skip-dry-run" when it found a record whose content differs from
\* the resolved address (equal content gives "noop", as does a cached-IP hit,
\* which makes no lookup)
C5_DryRunNeverMutates ==
  (mode # "none" /\ settings_list[1].dry_run) =>
    /\ pc \notin {"create", "update"}
    /\ calls.create = 0 /\ calls.update = 0
    /\ create_arg = None /\ update_arg = NoUpdate
    /\ (pc = "returned" /\ lookup = "absent") =>
         result.action = "create-skip-dry-run"
    /\ (pc = "returned" /\ lookup = "found" /\ record.content # current_ip) =>
         result.action = "update-skip-dry-run"
    /\ (pc = "returned" /\ lookup = "found" /\ record.content = current_ip) =>
         result.action = "noop"
    /\ (pc = "returned" /\ lookup = "none") =>
         (result.action = "noop" /\ result.reason = "unchanged-cached")

C5_Witness ==
  /\ mode \in LoopModes /\ swept /\ cur.dry_run
  /\ pc = "returned" /\ lookup = "found"
  /\ result.action = "update-skip-dry-run"

\* a sweep over the target list has just ended: the loop sleeps, or the
\* one-shot run has returned
SweepEnded == pc \in {"sleep", "done"} /\ swept

\* C6: within one sweep of a multi-target runner the resolver is called at
\* most once per address family, and exactly once, by the end of the sweep,
\* for the family the targets use
C6_OneResolverCallPerSweep ==
  mode \in MultiModes =>
    \A f \in Families :
      /\ resolver_calls[f] <= 1
      /\ SweepEnded =>
           resolver_calls[f] = IF \E j \in 1..N : settings_list[j].record_type = f
                               THEN 1 ELSE 0

\* C7: in every sweep of a multi-target runner the targets are reconciled
\* one after the other in list order, each exactly once; the sweep ends only
\* when all have been attempted, whichever of them raised
C7_EveryTargetOncePerSweep ==
  (mode \in MultiModes /\ interrupted_at = None) =>
    /\ attempted = [j \in 1..Len(attempted) |-> j]
    /\ pc = "call" => Len(attempted) = i - 1
    /\ InCall => Len(attempted) = i
    /\ SweepEnded => Len(attempted) = N
    /\ failed \subseteq 1..Len(attempted)

C7_Witness ==
  /\ mode = "multi_loop" /\ SweepEnded /\ interrupted_at = None
  /\ N = MaxTargets /\ 1 \in failed /\ attempted = [j \in 1..N |-> j]

\* C8: a one-shot multi-target run that returns (is not interrupted) has
\* attempted every target, and returns 0 if no target raised and 1 otherwise
C8_MultiOnceExitStatus ==
  (mode = "multi_once" /\ pc = "done" /\ interrupted_at = None) =>
    /\ Len(attempted) = N
    /\ exit_status = 0 <=> failed = {}
    /\ failed # {} => exit_status = 1

C8_Witness ==
  /\ mode = "multi_once" /\ pc = "done" /\ interrupted_at = None
  /\ N = MaxTargets /\ failed = {1} /\ exit_status = 1

\* C10: in a continuous run the cache is empty until a reconciliation has
\* returned; outside the moment between a return and its handler every
\* entry equals the address used by the latest returned reconciliation of
\* that (zone_name, record_name), so a raising reconciliation and the
\* reconciliation of another key leave it alone; and every reconciliation
\* is passed that entry as last_ip
C10_CacheFollowsReturnedIp ==
  (mode \in LoopModes /\ pc # "done") =>
    /\ \A k \in Keys :
         \/ pc = "returned" /\ k = KeyOf(cur)
         \/ CacheEntry(k) = last_used[k]
    /\ pc = "returned" =>
         /\ result.ip = current_ip
         /\ last_used[KeyOf(cur)] = current_ip
         /\ last_ip_arg = CacheEntry(KeyOf(cur))
    /\ pc \in CallPcs \cup {"raised"} => last_ip_arg = last_used[KeyOf(cur)]
    /\ (~swept /\ i = 1 /\ pc = "call") => \A k \in Keys : CacheEntry(k) = None

C10_Witness ==
  /\ mode = "multi_loop" /\ pc = "raised"
  /\ last_ip_arg # None /\ current_ip # None /\ last_ip_arg # current_ip
  /\ \E k \in Keys : k # KeyOf(cur) /\ last_ips[k] \notin {None, last_ips[KeyOf(cur)]}

\* the loop is left only by the interrupt, one sleep separates a cycle from
\* the one before it, and a cycle attempts the targets in list order
LoopKeepsCycling ==
  mode \in LoopModes =>
    /\ pc = "done" => interrupted_at # None
    /\ pc = "sleep" => (swept /\ slept = 0)
    /\ (swept /\ pc \notin {"sleep", "done"}) => slept = 1
    /\ attempted = [j \in 1..Len(attempted) |-> j]

\* C9: in continuous mode a raising reconciliation does not end the loop:
\* unless the process is interrupted, the loop reaches its sleep after the
\* raise, exactly one sleep separates consecutive cycles, and after every
\* cycle, failed or not, each target of the list is attempted again
C9_LoopSurvivesErrors ==
  /\ []LoopKeepsCycling
  /\ (mode \in LoopModes /\ pc = "raised") ~> (pc = "sleep" \/ interrupted_at # None)
  /\ (mode \in LoopModes /\ pc = "sleep")
       ~> ((slept = 1 /\ Len(attempted) = N) \/ interrupted_at # None)

C9_Witness ==
  /\ mode = "single_loop" /\ swept /\ slept = 1
  /\ last_ip = None /\ pc = "returned"

(* --------------------- functions applied on their own ------------------ *)
\* all the state of the runs of main
machine == <<prog, caches, locals, publicIp, remote, callhist, sweephist, last_used, confirmed,
             settings_list, multi, force_once, interrupted_at, edited, interval,
             credentials, healthy>>

\* a text is the sequence of its characters; a run of characters that holds
\* no blank and no separator may be written as one element
Whitespace == {" ", "\n", "\t"}

RECURSIVE LStrip(_)
LStrip(s) == IF s # << >> /\ Head(s) \in Whitespace THEN LStrip(Tail(s)) ELSE s

RECURSIVE RStrip(_)
RStrip(s) ==
  IF s # << >> /\ s[Len(s)] \in Whitespace THEN RStrip(SubSeq(s, 1, Len(s) - 1)) ELSE s

\* str.strip()
Strip(s) == RStrip(LStrip(s))

\* str.split(sep): the pieces between the separators, at least one piece
RECURSIVE Split(_, _)
Split(s, sep) ==
  IF \A j \in 1..Len(s) : s[j] # sep
  THEN <<s>>
  ELSE LET k == CHOOSE j \in 1..Len(s) : s[j] = sep /\ \A m \in 1..(j - 1) : s[m] # sep
       IN <<SubSeq(s, 1, k - 1)>> \o Split(SubSeq(s, k + 1, Len(s)), sep)

(* ------------------------------- ip.py -------------------------------- *)
Digits == {"0", "1", "2", "3", "4", "5", "6", "7", "8", "9"}
HexDigits == Digits \cup {"a", "b", "c", "d", "e", "f", "A", "B", "C", "D", "E", "F"}

\* ip.py line 6: _IPV4_RE = ^(?:\d{1,3}\.){3}\d{1,3}$
IsIPv4(s) ==
  LET g == Split(s, ".") IN
  /\ Len(g) = 4
  /\ \A j \in 1..Len(g) :
       /\ Len(g[j]) \in 1..3
       /\ \A m \in 1..Len(g[j]) : g[j][m] \in Digits

\* ip.py line 8: _IPV6_RE = ^([0-9a-fA-F]{0,4}:){2,7}[0-9a-fA-F]{0,4}$
IsIPv6(s) ==
  LET g == Split(s, ":") IN
  /\ Len(g) \in 3..8
  /\ \A j \in 1..Len(g) :
       /\ Len(g[j]) \in 0..4
       /\ \A m \in 1..Len(g[j]) : g[j][m] \in HexDigits

\* ip.py lines 10-18: the default echo endpoints
V4Endpoints == <<"https://api.ipify.org", "https://ipv4.icanhazip.com", "https://checkip.amazonaws.com">>
V6Endpoints == <<"https://api64.ipify.org", "https://ipv6.icanhazip.com">>

\* bodies an echo endpoint can answer with
Bodies ==
  { <<"1", ".", "1", ".", "1", ".", "1", "\n">>,
    <<" ", "2", ".", "2", ".", "2", ".", "2">>,
    <<":", ":", "1", "\n">>,
    <<"1", ".", "1", ".", "1">>,
    <<"<", "h", "t", "m", "l", ">">>,
    << >> }

\* what requests.get does for one endpoint: it raises, or it returns a
\* response that is ok or not, with a body
Responses ==
  { [kind |-> k, body |-> << >>] : k \in {"raises", "not-ok"} }
    \cup { [kind |-> "ok", body |-> b] : b \in Bodies }

Answered(asked, text) == [asked |-> asked, error |-> None, text |-> text]
Failed(asked, err) == [asked |-> asked, error |-> err, text |-> << >>]

\* Query giving up at the first response that is not ok
RECURSIVE Query_NotOkFails(_, _, _)
Query_NotOkFails(endpoints, answers, asked) ==
  IF endpoints = << >>
  THEN Failed(asked, "IPDetectionError")
  ELSE LET resp == answers[Len(asked) + 1]
           now == Append(asked, Head(endpoints))
       IN IF resp.kind = "ok" THEN Answered(now, Strip(resp.body))
          ELSE IF resp.kind = "not-ok" THEN Failed(now, "IPDetectionError")
          ELSE Query_NotOkFails(Tail(endpoints), answers, now)

\* ip.py lines 24-34: _query over the endpoints still to try; answers[j] is
\* what the j-th endpoint of the list does when asked, asked the endpoints
\* requested so far
RECURSIVE Query(_, _, _)
Query(endpoints, answers, asked) ==
  IF endpoints = << >>
  THEN Failed(asked, "IPDetectionError")
  ELSE LET resp == answers[Len(asked) + 1]
           now == Append(asked, Head(endpoints))
       IN IF resp.kind = "ok" THEN Answered(now, Strip(resp.body))
          ELSE Query(Tail(endpoints), answers, now)

\* str.upper() on the record types a caller may pass
Upper(s) ==
  CASE s = "a" -> "A"
    [] s = "aaaa" -> "AAAA"
    [] s = "txt" -> "TXT"
    [] OTHER -> s

\* Validated without the syntax check
Validated_Unchecked(q, valid) == q

\* ip.py lines 42-43 and 47-48: the answer of _query passes only if it
\* matches the family's pattern
Validated(q, valid) ==
  IF q.error = None /\ ~valid THEN Failed(q.asked, "IPDetectionError") ELSE q

\* ip.py lines 37-51: get_public_ip
GetPublicIp(record_type, answers) ==
  LET rt == Upper(record_type) IN
  IF rt = "A"
  THEN LET q == Query(V4Endpoints, answers, << >>) IN Validated(q, IsIPv4(q.text))
  ELSE IF rt = "AAAA"
       THEN LET q == Query(V6Endpoints, answers, << >>) IN Validated(q, IsIPv6(q.text))
       ELSE Failed(<< >>, "ValueError")

RecordTypes == {"A", "AAAA", "a", "aaaa", "TXT"}
EndpointsOf(rt) == IF Upper(rt) = "A" THEN V4Endpoints ELSE V6Endpoints

\* _query applied to one of the endpoint lists
CallQuery ==
  /\ fn = "none"
  /\ \E e \in {V4Endpoints, V6Endpoints} :
       \E a \in [1..Len(e) -> Responses] :
         /\ fn' = "_query"
         /\ fn_in' = [endpoints |-> e, answers |-> a]
         /\ fn_out' = Query(e, a, << >>)
  /\ UNCHANGED machine

\* get_public_ip applied to a record type
CallGetPublicIp ==
  /\ fn = "none"
  /\ \E rt \in RecordTypes :
       \E a \in [1..Len(EndpointsOf(rt)) -> Responses] :
         /\ fn' = "get_public_ip"
         /\ fn_in' = [record_type |-> rt, endpoints |-> EndpointsOf(rt), answers |-> a]
         /\ fn_out' = GetPublicIp(rt, a)
  /\ UNCHANGED machine

\* the first endpoint of the call's list that answers ok, 0 if none does
FirstOk(a) ==
  IF \E j \in 1..Len(a) : a[j].kind = "ok"
  THEN CHOOSE j \in 1..Len(a) : a[j].kind = "ok" /\ \A m \in 1..(j - 1) : a[m].kind # "ok"
  ELSE 0

\* C15: one _query call requests the endpoints in list order, each at most
\* once; it goes on after an endpoint that raised or answered not ok; it
\* requests none after the first that answered ok and returns that one's
\* trimmed body; when none answered ok it has requested all and raises
\* IPDetectionError
C15_QueryFailover ==
  fn = "_query" =>
    LET e == fn_in.endpoints
        first == FirstOk(fn_in.answers)
    IN /\ Len(fn_out.asked) <= Len(e)
       /\ fn_out.asked = SubSeq(e, 1, Len(fn_out.asked))
       /\ \A j \in 1..(Len(fn_out.asked) - 1) : fn_in.answers[j].kind # "ok"
       /\ first # 0 =>
            /\ Len(fn_out.asked) = first
            /\ fn_out.error = None
            /\ fn_out.text = Strip(fn_in.answers[first].body)
       /\ first = 0 =>
            /\ fn_out.asked = e
            /\ fn_out.error = "IPDetectionError"

C15_Witness ==
  /\ fn = "_query" /\ fn_in.endpoints = V4Endpoints
  /\ fn_in.answers[1].kind = "raises" /\ fn_in.answers[2].kind = "not-ok"
  /\ fn_in.answers[3].kind = "ok"
  /\ Len(fn_out.asked) = 3 /\ fn_out.error = None

\* the characters get_public_ip accepts in an address of the family
AddressChars(rt) == IF Upper(rt) = "A" THEN Digits \cup {"."} ELSE HexDigits \cup {":"}

\* C16: when the first endpoint that answers ok returns a text that fails
\* the family's pattern, get_public_ip raises IPDetectionError and has
\* requested none of the remaining endpoints; every address it returns is
\* the trimmed body of the first ok response and matches the pattern
C16_InvalidAnswerFails ==
  (fn = "get_public_ip" /\ Upper(fn_in.record_type) \in Families) =>
    LET first == FirstOk(fn_in.answers)
        body == fn_in.answers[first].body
        valid == IF Upper(fn_in.record_type) = "A"
                 THEN IsIPv4(Strip(body)) ELSE IsIPv6(Strip(body))
    IN /\ (first # 0 /\ ~valid) =>
            /\ fn_out.error = "IPDetectionError"
            /\ fn_out.asked = SubSeq(fn_in.endpoints, 1, first)
       /\ fn_out.error = None =>
            /\ first # 0 /\ valid
            /\ fn_out.text = Strip(body)
            /\ fn_out.text # << >>
            /\ \A j \in 1..Len(fn_out.text) :
                 fn_out.text[j] \in AddressChars(fn_in.record_type)

C16_Witness ==
  /\ fn = "get_public_ip" /\ fn_in.record_type = "a"
  /\ fn_in.answers[1].kind = "ok" /\ fn_in.answers[1].body = <<"1", ".", "1", ".", "1">>
  /\ fn_in.answers[2].kind = "ok" /\ IsIPv4(Strip(fn_in.answers[2].body))
  /\ fn_out.error = "IPDetectionError" /\ Len(fn_out.asked) = 1

(* ------------------- config.py and the override steps ----------------- *)
\* ",".join(parts)
RECURSIVE Join(_)
Join(parts) ==
  IF parts = << >> THEN << >>
  ELSE IF Len(parts) = 1 THEN parts[1]
       ELSE parts[1] \o <<",">> \o Join(Tail(parts))

\* the comma-separated values whose items are drawn from items
CsvOf(items) == { Join(parts) : parts \in UNION { [1..n -> items] : n \in 0..MaxParts } }

NonEmpty(s) == s # << >>

\* config.py lines 48-51 _split_csv and __main__.py lines 46-49 _parse_csv;
\* the empty text stands for an unset variable as well
SplitCsv(value) ==
  IF value = << >> THEN << >>
  ELSE LET parts == Split(value, ",")
       IN SelectSeq([j \in 1..Len(parts) |-> Strip(parts[j])], NonEmpty)

Target(z, r) == [zone_name |-> z, record_name |-> r]
Loaded(ts) == [error |-> None, targets |-> ts]
LoadError(msg) == [error |-> msg, targets |-> << >>]

\* zip(zones, record_names)
Zip(zones, names) ==
  [j \in 1..(IF Len(zones) < Len(names) THEN Len(zones) ELSE Len(names)) |->
     Target(zones[j], names[j])]

\* DefaultNames ignoring the global record name
DefaultNames_ZonesOnly(zones, glob) == zones

\* config.py lines 135-140: record names when no list of them is given
DefaultNames(zones, glob) ==
  IF glob # << >> THEN [j \in 1..Len(zones) |-> glob] ELSE zones

\* Paired letting zip cut a list of the wrong length
Paired_Truncating(zones, recs) ==
  IF Len(recs) # Len(zones) /\ Len(zones) = 1
  THEN Loaded(Zip([j \in 1..Len(recs) |-> zones[1]], recs))
  ELSE Loaded(Zip(zones, recs))

\* config.py lines 127-134 and 142: a given list of record names is paired
\* with the zones
Paired(zones, recs) ==
  IF Len(recs) # Len(zones)
  THEN IF Len(zones) = 1
       THEN Loaded(Zip([j \in 1..Len(recs) |-> zones[1]], recs))
       ELSE LoadError("CLOUDFLARE_RECORD_NAMES length must match CLOUDFLARE_ZONE_NAMES length")
  ELSE Loaded(Zip(zones, recs))

\* config.py lines 90-158: load_all_settings, the zone and record names of
\* the targets it builds
LoadAllSettings(env) ==
  LET zones_multi == SplitCsv(env.ZONE_NAMES)
      zones == IF zones_multi # << >> THEN zones_multi ELSE <<env.ZONE_NAME>>
      record_names_multi == SplitCsv(env.RECORD_NAMES)
  IN IF zones_multi = << >> /\ env.ZONE_NAME = << >>
     THEN LoadError("CLOUDFLARE_ZONE_NAME or CLOUDFLARE_ZONE_NAMES is required")
     ELSE IF record_names_multi # << >>
          THEN Paired(zones, record_names_multi)
          ELSE Loaded(Zip(zones, DefaultNames(zones, env.RECORD_NAME)))

\* __main__.py lines 31-43: _apply_single_overrides
ApplySingleOverrides(s, args) ==
  Target(IF args.zone_name # << >> THEN args.zone_name ELSE s.zone_name,
         IF args.record_name # << >> THEN args.record_name
         ELSE IF s.record_name # << >> THEN s.record_name
         ELSE IF args.zone_name # << >> THEN args.zone_name
         ELSE s.zone_name)

\* __main__.py lines 52-107: _apply_multi_overrides
ApplyMultiOverrides(list, args) ==
  LET zones == SplitCsv(args.zones_csv)
      records_csv == SplitCsv(args.records_csv)
  IN IF zones # << >>
     THEN IF records_csv # << >>
          THEN IF Len(records_csv) # Len(zones)
               THEN LoadError("--records count must match --zones count")
               ELSE Loaded(Zip(zones, records_csv))
          ELSE Loaded(Zip(zones, DefaultNames(zones, args.record_name)))
     ELSE Loaded(list)

\* __main__.py lines 170-178 and 202-204: the targets main reconciles
MainTargets(env, args) ==
  LET loaded == LoadAllSettings(env) IN
  IF loaded.error # None THEN loaded
  ELSE IF args.zones_csv # << >> \/ Len(loaded.targets) > 1
       THEN ApplyMultiOverrides(loaded.targets, args)
       ELSE Loaded(<<ApplySingleOverrides(loaded.targets[1], args)>>)

\* the environment load_all_settings reads
Environments ==
  [ZONE_NAMES : CsvOf({<<"a.com">>, <<" ", "b.com">>, <<" ">>}),
   ZONE_NAME : {<< >>, <<"c.com">>},
   RECORD_NAMES : CsvOf({<<"home">>, <<"www", " ">>, << >>}),
   RECORD_NAME : {<< >>, <<"vpn">>}]

\* the environments and command lines main is run with
MainEnvironments ==
  [ZONE_NAMES : CsvOf({<<"a.com">>}),
   ZONE_NAME : {<< >>, <<"c.com">>},
   RECORD_NAMES : CsvOf({<<"home">>}),
   RECORD_NAME : {<< >>, <<"vpn">>}]
Arguments ==
  [zones_csv : CsvOf({<<"x.com">>}),
   zone_name : {<< >>, <<"d.com">>},
   records_csv : CsvOf({<<"mail">>}),
   record_name : {<< >>, <<"ftp">>}]

\* every value a Settings can be built with, empty strings included
AllCredentials ==
  { Creds(tok, key, em) :
      <<tok, key, em>> \in {None, "", "tok"} \X {None, "", "key"} \X {None, "", "me@x.org"} }

CallLoadAllSettings ==
  /\ fn = "none"
  /\ \E env \in Environments :
       /\ fn' = "load_all_settings"
       /\ fn_in' = env
       /\ fn_out' = LoadAllSettings(env)
  /\ UNCHANGED machine

\* main up to the choice of the runner
CallMainTargets ==
  /\ fn = "none"
  /\ \E env \in MainEnvironments :
       \E args \in Arguments :
         /\ fn' = "main"
         /\ fn_in' = [env |-> env, args |-> args]
         /\ fn_out' = MainTargets(env, args)
  /\ UNCHANGED machine

CallAuthHeaders ==
  /\ fn = "none"
  /\ \E c \in AllCredentials :
       /\ fn' = "auth_headers"
       /\ fn_in' = c
       /\ fn_out' = AuthHeaders(c)
  /\ UNCHANGED machine

\* the zones load_all_settings works with: the list, or the single zone
ZonesOf(env) ==
  IF SplitCsv(env.ZONE_NAMES) # << >> THEN SplitCsv(env.ZONE_NAMES) ELSE <<env.ZONE_NAME>>

\* C17: load_all_settings raises the length-mismatch error and builds no
\* target whenever CLOUDFLARE_RECORD_NAMES holds at least one name and the
\* number of its names differs from the number of zones in a
\* CLOUDFLARE_ZONE_NAMES of two or more zones
C17_LengthMismatchFails ==
  fn = "load_all_settings" =>
    LET zones == SplitCsv(fn_in.ZONE_NAMES)
        recs == SplitCsv(fn_in.RECORD_NAMES)
    IN (Len(zones) >= 2 /\ recs # << >> /\ Len(recs) # Len(zones)) =>
         /\ fn_out.error = "CLOUDFLARE_RECORD_NAMES length must match CLOUDFLARE_ZONE_NAMES length"
         /\ fn_out.targets = << >>

C17_Witness ==
  /\ fn = "load_all_settings"
  /\ Len(SplitCsv(fn_in.ZONE_NAMES)) = MaxParts
  /\ Len(SplitCsv(fn_in.RECORD_NAMES)) = 1
  /\ fn_out.error # None /\ fn_out.targets = << >>

\* C18: when load_all_settings succeeds, target j pairs zone j with record
\* name j: a list of record names as long as the zone list is applied
\* position by position; a single zone with k record names gives k targets
\* that all carry that zone; with no list of record names every target
\* takes the global record name if one is set and its own zone otherwise
C18_PositionalPairing ==
  (fn = "load_all_settings" /\ fn_out.error = None) =>
    LET zones == ZonesOf(fn_in)
        recs == SplitCsv(fn_in.RECORD_NAMES)
        ts == fn_out.targets
    IN /\ ts # << >>
       /\ (recs # << >> /\ Len(recs) = Len(zones)) =>
            ts = [j \in 1..Len(zones) |-> Target(zones[j], recs[j])]
       /\ (recs # << >> /\ Len(zones) = 1) =>
            ts = [j \in 1..Len(recs) |-> Target(zones[1], recs[j])]
       /\ (recs # << >>) => (Len(recs) = Len(zones) \/ Len(zones) = 1)
       /\ (recs = << >> /\ fn_in.RECORD_NAME # << >>) =>
            ts = [j \in 1..Len(zones) |-> Target(zones[j], fn_in.RECORD_NAME)]
       /\ (recs = << >> /\ fn_in.RECORD_NAME = << >>) =>
            ts = [j \in 1..Len(zones) |-> Target(zones[j], zones[j])]

C18_Witness ==
  /\ fn = "load_all_settings" /\ fn_out.error = None
  /\ fn_in.ZONE_NAMES = << >> /\ fn_in.ZONE_NAME # << >>
  /\ Len(fn_out.targets) = MaxParts
  /\ \A j \in 1..MaxParts : fn_out.targets[j].zone_name = fn_in.ZONE_NAME
  /\ fn_out.targets[1].record_name # fn_out.targets[MaxParts].record_name

\* C19: when neither the environment nor the command line names a record,
\* every target main goes on to reconcile has its own final zone name as
\* record name, also when an option replaced the zone
C19_RecordDefaultsToZone ==
  (/\ fn = "main" /\ fn_out.error = None
   /\ fn_in.env.RECORD_NAME = << >> /\ fn_in.env.RECORD_NAMES = << >>
   /\ fn_in.args.record_name = << >> /\ fn_in.args.records_csv = << >>) =>
    \A j \in 1..Len(fn_out.targets) :
      fn_out.targets[j].record_name = fn_out.targets[j].zone_name

\* C20: auth_headers returns the bearer header alone when a token is set,
\* the email and key headers alone when no token but both a key and an
\* email are set, and raises otherwise; it never returns an empty map or a
\* map mixing the two schemes
C20_AuthHeaderUnion ==
  fn = "auth_headers" =>
    LET names == { h[1] : h \in fn_out.headers } IN
    /\ Truthy(fn_in.api_token) =>
         /\ fn_out.error = None
         /\ fn_out.headers = {<<"Authorization", "Bearer " \o fn_in.api_token>>}
    /\ (~Truthy(fn_in.api_token) /\ Truthy(fn_in.api_key) /\ Truthy(fn_in.email)) =>
         /\ fn_out.error = None
         /\ fn_out.headers = {<<"X-Auth-Email", fn_in.email>>, <<"X-Auth-Key", fn_in.api_key>>}
    /\ (~Truthy(fn_in.api_token) /\ ~(Truthy(fn_in.api_key) /\ Truthy(fn_in.email))) =>
         /\ fn_out.error = "ValueError"
         /\ fn_out.headers = {}
    /\ fn_out.error = None =>
         names \in {{"Authorization"}, {"X-Auth-Email", "X-Auth-Key"}}

C20_Witness ==
  /\ fn = "auth_headers" /\ fn_in.api_token = "tok"
  /\ fn_in.api_key = "key" /\ fn_in.email = "me@x.org"
  /\ fn_out.headers = {<<"Authorization", "Bearer tok">>}

\* C11: in a continuous run, a record edited or deleted by somebody else
\* between two cycles keeps the externally set content for as long as every
\* later reconciliation of its target resolves the address held in the
\* target's cache entry: those reconciliations make no provider call; a
\* provider call is made only by a reconciliation whose resolved address
\* differs from the cache entry
C11_ExternalEditStands ==
  (mode \in LoopModes /\ pc # "done") =>
    /\ \A k \in Keys :
         edited[k] # NotEdited =>
           /\ remote[k] = edited[k]
           /\ (InCall /\ KeyOf(cur) = k) => (calls = NoCalls /\ lookup = "none")
    /\ (InCall /\ calls # NoCalls) => current_ip # CacheEntry(KeyOf(cur))
    /\ pc \in CallPcs => current_ip # CacheEntry(KeyOf(cur))

C11_Witness ==
  /\ mode \in LoopModes /\ pc = "returned" /\ ~cur.dry_run
  /\ edited[KeyOf(cur)] # NotEdited
  /\ result.reason = "unchanged-cached"
  /\ remote[KeyOf(cur)] = edited[KeyOf(cur)]
  /\ remote[KeyOf(cur)].content # current_ip

\* C12: a reconciliation that resolves the address used by the latest
\* returned reconciliation of the same (zone_name, record_name), with no
\* external change in between, makes no create and no update call and
\* leaves the provider's records as they are, whether it was passed that
\* address as last_ip or not; with dry_run false it returns "noop"
C12_SecondRunIdle ==
  (InCall /\ prev_ip # None /\ prev_ip = current_ip) =>
    /\ pc \notin {"create", "update"}
    /\ calls.create = 0 /\ calls.update = 0
    /\ create_arg = None /\ update_arg = NoUpdate
    /\ (pc = "returned" /\ ~cur.dry_run) => result.action = "noop"

C12_Idempotent ==
  /\ []C12_SecondRunIdle
  /\ [][(pc \in CallPcs /\ prev_ip # None /\ prev_ip = current_ip) => remote' = remote]_vars

C12_Witness ==
  /\ mode = "multi_once" /\ pc = "returned" /\ ~cur.dry_run
  /\ prev_ip # None /\ prev_ip = current_ip /\ last_ip_arg = None
  /\ result.reason = "unchanged-remote"

\* C13: _run_multi_loop asked to loop (force_once false, interval I not
\* empty) over a list with a target whose own interval is neither empty nor
\* I returns 2 without entering the loop and before any resolver or provider
\* call; when every target's interval is empty or I, the loop is entered
C13_IntervalMismatchRefused ==
  (pc # "main" /\ ~force_once /\ interval # 0 /\ interrupted_at = None) =>
    IF \E j \in 1..N : settings_list[j].interval \notin {0, interval}
    THEN /\ pc = "done" /\ exit_status = 2
         /\ mode = "none"
         /\ resolver_calls = NoResolverCalls /\ calls = NoCalls
         /\ attempted = << >> /\ ~swept
    ELSE /\ mode = "multi_loop"
         /\ pc # "done"

C13_Witness ==
  /\ pc = "done" /\ exit_status = 2 /\ mode = "none" /\ N = MaxTargets
  /\ settings_list[1].interval = interval
  /\ settings_list[N].interval \notin {0, interval}

\* C14: a run whose targets have no usable credentials makes no resolver
\* call and no provider call, attempts no reconciliation, and ends at once
\* with the configuration-error status 2, in one-shot and in continuous mode
C14_NoCredentialsFatalEarly ==
  (pc # "main" /\ AuthHeaders(credentials).error # None /\ interrupted_at = None) =>
    /\ resolver_calls = NoResolverCalls
    /\ calls = NoCalls
    /\ attempted = << >>
    /\ pc = "done" /\ exit_status = 2

\* the provider calls a run_once call has made are the first steps of zone
\* lookup, record lookup, one mutating call, each made after the steps
\* before it succeeded
StepsInOrder ==
  InCall =>
    /\ calls.zone <= 1 /\ calls.find <= 1 /\ calls.create + calls.update <= 1
    /\ current_ip = None => (pc = "raised" /\ calls = NoCalls)
    /\ calls.find = 1 => calls.zone = 1
    /\ lookup # "none" => calls.find = 1
    /\ calls.create + calls.update = 1 => lookup # "none"
    /\ pc = "zone" => calls = NoCalls
    /\ pc = "find" => calls = [NoCalls EXCEPT !.zone = 1]
    /\ pc \in {"create", "update"} =>
         (calls = [NoCalls EXCEPT !.zone = 1, !.find = 1] /\ lookup # "none")

\* C21: every run_once call resolves the address, then looks up the zone,
\* then the record, then makes at most one mutating call, create or update;
\* the mutating call is made only after the three steps before it succeeded;
\* a step that fails ends the call: no later step is made, and the
\* provider's records change only in a mutating call that succeeds
C21_StrictStepOrder ==
  /\ []StepsInOrder
  /\ [][/\ pc = "raised" => (calls' = NoCalls /\ remote' = remote)
        /\ remote' # remote =>
             /\ pc \in {"create", "update"} /\ pc' = "returned"
             /\ current_ip # None /\ lookup # "none"
             /\ calls = [NoCalls EXCEPT !.zone = 1, !.find = 1]]_vars

C21_Witness ==
  /\ pc = "raised" /\ lookup = "found"
  /\ calls = [NoCalls EXCEPT !.zone = 1, !.find = 1, !.update = 1]
  /\ remote[KeyOf(cur)] = record

\* every target's record holds the public address of its family
Converged ==
  \A j \in 1..N :
    remote[KeyOf(settings_list[j])].content = publicIp[settings_list[j].record_type]

\* C22: in a continuous run with dry_run false, once the environment has
\* settled (the public address stays, resolver and provider calls succeed,
\* nobody else edits the records), whatever failed or changed before, the
\* record of every target comes to hold the public address, unless the
\* process is interrupted first, and from then on it keeps holding it
C22_Convergence ==
  /\ healthy ~> (Converged \/ interrupted_at # None)
  /\ [][(healthy /\ Converged) => Converged']_vars

C22_Witness ==
  /\ healthy /\ Converged /\ mode = "multi_loop" /\ N = MaxTargets
  /\ pc = "returned" /\ i = N /\ result.action = "updated"
  /\ KeyOf(settings_list[1]) # KeyOf(settings_list[N])

\* a reconciliation of a continuous run has just returned through the
\* cached-IP fast path
CachedNoop ==
  mode \in LoopModes /\ pc = "returned" /\ result.reason = "unchanged-cached"

\* C23 as stated: in a continuous run, for every target, dry-run targets
\* included, a reconciliation that returns "noop" / "unchanged-cached" for
\* an address follows a reconciliation of the same target that saw that
\* address in the provider's record or wrote it there
C23_AsStated ==
  CachedNoop => confirmed[KeyOf(cur)] = current_ip

\* C23 amended: such a reconciliation follows a returned reconciliation of
\* the same target that used the same address; when dry_run is false that
\* address was seen in the provider's record or written there (with dry_run
\* true the address of a skipped create or update is cached as well)
C23_CachedIpWasUsed ==
  CachedNoop =>
    /\ last_ip_arg = current_ip
    /\ prev_ip = current_ip
    /\ ~cur.dry_run => confirmed[KeyOf(cur)] = current_ip

C23_Witness ==
  /\ CachedNoop /\ ~cur.dry_run /\ mode = "multi_loop"
  /\ confirmed[KeyOf(cur)] = current_ip
  /\ i = MaxTargets

\* C24: in the continuous multi-target loop every cycle starts with an
\* empty ip_cache: an address in the cache, and every address a
\* reconciliation uses, was returned by a resolver call of the same cycle,
\* so it is the public address of that cycle also after a change of
\* address during the sleep before it
C24_PerCycleIpCache ==
  (mode = "multi_loop" /\ pc # "done") =>
    /\ (pc = "call" /\ i = 1) => ip_cache = EmptyCache
    /\ \A f \in Families :
         ip_cache[f] # None =>
           /\ resolver_calls[f] >= 1
           /\ pc # "sleep" => ip_cache[f] = publicIp[f]
    /\ (InCall /\ current_ip # None) =>
         /\ resolver_calls[cur.record_type] >= 1
         /\ current_ip = publicIp[cur.record_type]

C24_Witness ==
  /\ mode = "multi_loop" /\ swept /\ slept = 1
  /\ pc = "returned" /\ i = MaxTargets
  /\ last_ip_arg \notin {None, current_ip}
  /\ current_ip = publicIp[cur.record_type]
  /\ resolver_calls[cur.record_type] = 1

\* C25: at every point of a continuous run, in the sleep and inside a
\* reconciliation, the interrupt can arrive, and when it has arrived no
\* handler of the loop has swallowed it: the run has ended and main has
\* returned 130; a run that ends otherwise returns 0, 1 or 2
C25_InterruptEndsRun ==
  /\ (mode \in LoopModes /\ pc # "done") => ENABLED Interrupt
  /\ interrupted_at # None => (pc = "done" /\ exit_status = 130)
  /\ (pc = "done" /\ interrupted_at = None) => exit_status \in {0, 1, 2}
  /\ (mode \in LoopModes /\ pc = "done") => interrupted_at # None

C25_Witness ==
  /\ mode = "multi_loop"
  /\ interrupted_at = "raised" /\ pc = "done" /\ exit_status = 130

\* no interval, or --once
OneShot == settings_list[1].interval = 0 \/ force_once

OneSweep ==
  /\ pc # "main" => (OneShot <=> mode \in {"single_once", "multi_once"})
  /\ mode \in LoopModes => ~OneShot
  /\ (pc # "main" /\ OneShot) =>
       /\ pc # "sleep" /\ slept = 0
       /\ last_ip_arg = None
       /\ Len(attempted) <= N
       /\ \A j \in 1..Len(attempted) : attempted[j] = j
       /\ (pc = "done" /\ interrupted_at = None) =>
            /\ swept
            /\ Len(attempted) = N
            /\ exit_status = IF failed = {} THEN 0 ELSE 1

\* C26: with no interval or with --once the run is one sweep: every target
\* is reconciled once, in order, with no last_ip, nothing sleeps, and the run
\* ends, whether targets fail or not; a loop runs only with an interval
\* set and without --once
C26_OneShotSweep ==
  /\ []OneSweep
  /\ (pc # "main" /\ OneShot) ~> pc = "done"

C26_Witness ==
  /\ force_once /\ settings_list[1].interval # 0
  /\ mode = "multi_once" /\ N = MaxTargets
  /\ pc = "done" /\ interrupted_at = None
  /\ failed = {1} /\ attempted = [j \in 1..N |-> j]
  /\ exit_status = 1

(* ------------------------- the functions' runs ------------------------ *)
\* no run of main: one target that is never started
InitFn ==
  /\ Start({<<Settings(<<"a.com", "home">>, "A", 0, FALSE)>>}, TokenCredentials)
  /\ multi = FALSE
  /\ force_once = FALSE
  /\ publicIp = [f \in Families |-> CHOOSE a \in Addr(f) : TRUE]
  /\ remote = [k \in Keys |-> NoRecord]

NextFn ==
  \/ CallQuery
  \/ CallGetPublicIp
  \/ CallLoadAllSettings
  \/ CallMainTargets
  \/ CallAuthHeaders

FnSpec == InitFn /\ [][NextFn]_vars

====
